---- MODULE Spec2Model ----
(***************************************************************************)
(* A model of kraken.js: the class-based client (class KrakenClient) and   *)
(* the closure-based client (function KrakenClient).  One client instance  *)
(* is constructed in Init; the actions are the calls a user of the client  *)
(* can make (api with any method name, writes to a parameter object they   *)
(* own, a call on a second instance) and the transport answering one       *)
(* request in flight, which runs the whole completion handler of           *)
(* _rawRequest.  A call that reads the clock chooses what it reads.        *)
(***************************************************************************)
EXTENDS Integers, Sequences, FiniteSets

VARIABLES
    variant,     \* "class" (kraken.js 11-228) or "closure" (kraken.js 243-442)
    config,      \* this._config / var config
    lastNonce,   \* this._lastNonce (class-based client only)
    otherNonce,  \* this._lastNonce of a second instance of the same class
    clock,       \* the value Date.now() returned last, in milliseconds
    bags,        \* the caller's parameter objects, by identity
    pending,     \* requests handed to the transport and not answered yet
    ncalls,      \* how many requests were handed to the transport
    sent,        \* history: one entry per request handed to the transport
    callerWrote, \* history: the caller wrote a nonce into some object
    ev           \* the last operation and everything observable of it

vars == <<variant, config, lastNonce, otherNonce, clock, bags, pending, ncalls,
          sent, callerWrote, ev>>

----------------------------------------------------------------------------
\* Bounds of the model.
MaxCalls == 2
MaxClock == 2

----------------------------------------------------------------------------
\* JavaScript values: a type tag, a number and a string.
JS(t, n, s) == [t |-> t, n |-> n, s |-> s]
Undefined == JS("undefined", 0, "")
Null == JS("null", 0, "")
Num(n) == JS("number", n, "")
Str(s) == JS("string", 0, s)
Bool(b) == JS("boolean", IF b THEN 1 ELSE 0, "")
Obj(s) == JS("object", 0, s)

\* ToBoolean, as used by `!x`, `x || y` and `if (x)`.
Truthy(v) ==
    CASE v.t = "undefined" -> FALSE
      [] v.t = "null" -> FALSE
      [] v.t = "number" -> v.n # 0
      [] v.t = "boolean" -> v.n # 0
      [] v.t = "string" -> v.s # ""
      [] OTHER -> TRUE

\* x || y
OrElse(x, y) == IF Truthy(x) THEN x ELSE y

\* A plain object: its own keys in insertion order.
Has(o, k) == \E i \in 1..Len(o) : o[i].k = k
Get(o, k) == IF Has(o, k) THEN o[CHOOSE i \in 1..Len(o) : o[i].k = k].v ELSE Undefined
Put(o, k, v) ==
    IF Has(o, k)
    THEN [i \in 1..Len(o) |-> IF o[i].k = k THEN [k |-> k, v |-> v] ELSE o[i]]
    ELSE Append(o, [k |-> k, v |-> v])

\* String(v), as `nonce + message` and template literals convert a value: a
\* number becomes its decimal digits, a string stays what it is.
ToString(v) ==
    CASE v.t = "number" -> [num |-> v.n, s |-> ""]
      [] v.t = "string" -> [num |-> -1, s |-> v.s]
      [] v.t = "boolean" -> [num |-> -1, s |-> IF v.n # 0 THEN "true" ELSE "false"]
      [] v.t = "null" -> [num |-> -1, s |-> "null"]
      [] v.t = "undefined" -> [num |-> -1, s |-> "undefined"]
      [] OTHER -> [num |-> -1, s |-> "[object Object]"]

\* qs.stringify(o): key=value pairs in insertion order; a key whose value is
\* undefined is left out and null is written as the empty string.
QsText(v) == IF v.t = "null" THEN [num |-> -1, s |-> ""] ELSE ToString(v)
RECURSIVE stringify(_)
stringify(o) ==
    IF o = <<>> THEN <<>>
    ELSE IF Head(o).v.t = "undefined" THEN stringify(Tail(o))
    ELSE <<[k |-> Head(o).k, text |-> QsText(Head(o).v)]>> \o stringify(Tail(o))

----------------------------------------------------------------------------
\* The method catalog.
PublicMethods ==
    {"Time", "Assets", "AssetPairs", "Ticker", "Depth", "Trades", "Spread", "OHLC"}
PrivateMethods ==
    {"Balance", "TradeBalance", "OpenOrders", "ClosedOrders", "QueryOrders",
     "TradesHistory", "QueryTrades", "OpenPositions", "Ledgers", "QueryLedgers",
     "TradeVolume", "AddOrder", "CancelOrder", "DepositMethods",
     "DepositAddresses", "DepositStatus", "WithdrawInfo", "Withdraw",
     "WithdrawStatus", "WithdrawCancel"}

\* Which branch of api() a method name takes.
Dispatch_PrivateByDefault(method) ==
    IF method \in PublicMethods THEN "public" ELSE "private"
Dispatch(method) ==
    IF method \in PublicMethods THEN "public"
    ELSE IF method \in PrivateMethods THEN "private"
    ELSE "throw"

----------------------------------------------------------------------------
\* Construction.
DefaultTimeoutMS == 5000
MicrosPerMilli == 1000

\* The constructor's third argument: undefined, a string or an object.
OptUndefined == [t |-> "undefined", s |-> "", o |-> <<>>]
OptString(s) == [t |-> "string", s |-> s, o |-> <<>>]
OptObject(o) == [t |-> "object", s |-> "", o |-> o]

\* `options = {}` (class) / `options = options || {}` (closure-based client,
\* where the empty string is falsy and becomes {}), then the string shorthand.
Options(options) ==
    IF options.t = "undefined" THEN <<>>
    ELSE IF options.t = "string"
    THEN IF variant = "closure" /\ options.s = "" THEN <<>>
         ELSE <<[k |-> "otp", v |-> Str(options.s)]>>
    ELSE options.o

Config(key, secret, options) ==
    LET o == Options(options) IN
    [url |-> "https://api.kraken.com",
     version |-> OrElse(Get(o, "version"), Str("0")),
     key |-> key,
     secret |-> secret,
     otp |-> Get(o, "otp"),
     timeoutMS |-> OrElse(Get(o, "timeout"), Num(DefaultTimeoutMS))]

\* Date.now() * 1000
Micros(now) == now * MicrosPerMilli

----------------------------------------------------------------------------
\* Signing.  SHA-256, HMAC-SHA512 and base64 are kept as the terms they are
\* applied to: two signatures are equal exactly when their inputs are.
getMessageSignature_Stateful(path, request, nonce) ==
    [hmac |-> "sha512",
     secret |-> config.secret,
     path |-> path,
     hash |-> [nonce |-> ToString(Num(lastNonce)), message |-> stringify(request)]]
getMessageSignature(path, request, nonce) ==
    [hmac |-> "sha512",
     secret |-> config.secret,
     path |-> path,
     hash |-> [nonce |-> ToString(nonce), message |-> stringify(request)]]

\* `/${config.version}/public|private/${method}` and `${config.url}${path}`
Path(kind, method) == <<"/", ToString(config.version), "/", kind, "/", method>>
Url(path) == <<config.url>> \o path

\* The request _rawRequest hands to request.post.
rawRequest(url, headers, params) ==
    [url |-> url,
     method |-> "POST",
     headers |-> Put(headers, "User-Agent", Str("Kraken Javascript API Client")),
     form |-> params,
     timeout |-> config.timeoutMS]

\* _publicMethod / publicMethod: no headers of its own, params as they are.
publicMethod_Signed(method, params) ==
    LET path == Path("public", method) IN
    rawRequest(Url(path),
               <<[k |-> "API-Key", v |-> config.key],
                 [k |-> "API-Sign", v |-> getMessageSignature(path, params, Undefined)]>>,
               params)
publicMethod(method, params) ==
    LET path == Path("public", method) IN
    rawRequest(Url(path), <<>>, params)

\* The nonce a call takes from the counter (class-based client):
\* the last one plus 1, or the time when the counter holds nothing.
NextNonce_Stale(last, now) == IF last # 0 THEN last ELSE Micros(now)
NextNonce(last, now) == IF last # 0 THEN last + 1 ELSE Micros(now)

\* `if (!params.nonce) {...}` of the class-based client: the parameter object
\* and the counter after it.
ClassNonce_KeyPresence(params, last, now) ==
    IF ~Has(params, "nonce")
    THEN LET nonce == NextNonce(last, now) IN
         [params |-> Put(params, "nonce", Num(nonce)), lastNonce |-> nonce,
          allocated |-> TRUE]
    ELSE [params |-> params, lastNonce |-> last, allocated |-> FALSE]
ClassNonce_LostUpdate(params, last, now) ==
    IF ~Truthy(Get(params, "nonce"))
    THEN LET nonce == NextNonce(last, now) IN
         [params |-> Put(params, "nonce", Num(nonce)), lastNonce |-> last,
          allocated |-> TRUE]
    ELSE [params |-> params, lastNonce |-> last, allocated |-> FALSE]
ClassNonce_FollowsCaller(params, last, now) ==
    IF ~Truthy(Get(params, "nonce"))
    THEN LET nonce == NextNonce(last, now) IN
         [params |-> Put(params, "nonce", Num(nonce)), lastNonce |-> nonce,
          allocated |-> TRUE]
    ELSE [params |-> params, lastNonce |-> Get(params, "nonce").n, allocated |-> FALSE]
ClassNonce(params, last, now) ==
    IF ~Truthy(Get(params, "nonce"))
    THEN LET nonce == NextNonce(last, now) IN
         [params |-> Put(params, "nonce", Num(nonce)), lastNonce |-> nonce,
          allocated |-> TRUE]
    ELSE [params |-> params, lastNonce |-> last, allocated |-> FALSE]

\* `if (!params.nonce) {...}` of the closure-based client: the time, no counter.
ClosureNonce(params, last, now) ==
    IF ~Truthy(Get(params, "nonce"))
    THEN [params |-> Put(params, "nonce", Num(Micros(now))), lastNonce |-> last,
          allocated |-> TRUE]
    ELSE [params |-> params, lastNonce |-> last, allocated |-> FALSE]

\* `if (config.otp !== undefined) params.otp = config.otp`
InjectOtp_KeepsCallers(params) ==
    IF config.otp # Undefined /\ ~Has(params, "otp")
    THEN Put(params, "otp", config.otp) ELSE params
InjectOtp(params) ==
    IF config.otp # Undefined THEN Put(params, "otp", config.otp) ELSE params

\* _privateMethod / privateMethod: the parameter object as the call leaves it,
\* the counter, and the request handed to the transport.
privateMethod_SignsFirst(method, params, last, now) ==
    LET path == Path("private", method)
        n == IF variant = "class" THEN ClassNonce(params, last, now)
             ELSE ClosureNonce(params, last, now)
        signature == getMessageSignature(path, n.params, Get(n.params, "nonce"))
        final == InjectOtp(n.params)
        headers == <<[k |-> "API-Key", v |-> config.key],
                     [k |-> "API-Sign", v |-> signature]>>
    IN  [params |-> final, lastNonce |-> n.lastNonce, allocated |-> n.allocated,
         request |-> rawRequest(Url(path), headers, final)]
privateMethod(method, params, last, now) ==
    LET path == Path("private", method)
        n == IF variant = "class" THEN ClassNonce(params, last, now)
             ELSE ClosureNonce(params, last, now)
        final == InjectOtp(n.params)
        signature == getMessageSignature(path, final, Get(final, "nonce"))
        headers == <<[k |-> "API-Key", v |-> config.key],
                     [k |-> "API-Sign", v |-> signature]>>
    IN  [params |-> final, lastNonce |-> n.lastNonce, allocated |-> n.allocated,
         request |-> rawRequest(Url(path), headers, final)]

----------------------------------------------------------------------------
\* What the transport hands to the completion handler: an error or a body.
\* A body is text that JSON.parse accepts (and the value it parses to) or
\* text that it rejects.  A string is the sequence of its characters.
S(chars) == [t |-> "string", chars |-> chars]
NotAString == [t |-> "number", chars |-> <<>>]
NoErrorField == [t |-> "undefined", elems |-> <<>>]
ErrorArray(elems) == [t |-> "array", elems |-> elems]
ErrorText == [t |-> "string", elems |-> <<>>]
DataObject(error, result) == [t |-> "object", error |-> error, result |-> result]
DataNull == [t |-> "null", error |-> NoErrorField, result |-> Undefined]
Json(text, data) == [json |-> TRUE, text |-> text, data |-> data]
NotJson(text) == [json |-> FALSE, text |-> text, data |-> DataNull]
NoError == [set |-> FALSE, code |-> ""]
TransportError(code) == [set |-> TRUE, code |-> code]

\* The values a promise settles with and a callback is called with.
Value(t, result, data, error) ==
    [t |-> t, result |-> result, data |-> data, error |-> error]
NoErr == [msg |-> "", code |-> <<>>, raw |-> <<>>, text |-> "", cause |-> NoError]
VUndefined == Value("undefined", Undefined, DataNull, NoErr)
VNull == Value("null", Undefined, DataNull, NoErr)
VResult(r) == Value("result", r, DataNull, NoErr)
VBody(d) == Value("body", Undefined, d, NoErr)
VError(e) == Value("error", Undefined, DataNull, e)

Pending == [state |-> "pending", value |-> VUndefined]
Resolved(v) == [state |-> "resolved", value |-> v]
Rejected(v) == [state |-> "rejected", value |-> v]

\* str.charAt(0) and str.substr(1)
charAt0(chars) == IF chars = <<>> THEN "" ELSE Head(chars)
substr1(chars) == IF chars = <<>> THEN <<>> ELSE Tail(chars)

\* data.error.forEach(function (element) {...}): every element is visited,
\* `return false` ends one visit and not the loop; charAt on an element
\* that is no string throws.
RECURSIVE forEach(_, _)
forEach(elems, acc) ==
    IF elems = <<>> THEN acc
    ELSE IF Head(elems).t # "string" THEN [acc EXCEPT !.threw = TRUE]
    ELSE IF charAt0(Head(elems).chars) = "E"
         THEN forEach(Tail(elems),
                      [acc EXCEPT !.isNull = FALSE,
                                  !.krakenError = substr1(Head(elems).chars)])
         ELSE forEach(Tail(elems), acc)
ScanErrors(elems) ==
    forEach(elems, [isNull |-> TRUE, krakenError |-> <<>>, threw |-> FALSE])

\* `if (callback) { resolve(); return callback.call(self, error, null); }
\*  else { return reject(error); }`
Fail(callback, bound, e) ==
    IF callback
    THEN [promise |-> Resolved(VUndefined),
          calls |-> IF bound THEN <<[error |-> VError(e), value |-> VNull]>> ELSE <<>>,
          threw |-> IF bound THEN "none" ELSE "ReferenceError"]
    ELSE [promise |-> Rejected(VError(e)), calls |-> <<>>, threw |-> "none"]

\* data.result || data
ResultOrData(data) ==
    IF Truthy(data.result) THEN VResult(data.result) ELSE VBody(data)

\* `resolve(data.result || data); if (callback) callback.call(self, null, ...)`
Succeed_Silent(callback, bound, data) ==
    [promise |-> Resolved(IF callback THEN VUndefined ELSE ResultOrData(data)),
     calls |-> IF callback /\ bound
               THEN <<[error |-> VNull, value |-> ResultOrData(data)]>> ELSE <<>>,
     threw |-> IF callback /\ ~bound THEN "ReferenceError" ELSE "none"]
Succeed(callback, bound, data) ==
    [promise |-> Resolved(ResultOrData(data)),
     calls |-> IF callback /\ bound
               THEN <<[error |-> VNull, value |-> ResultOrData(data)]>> ELSE <<>>,
     threw |-> IF callback /\ ~bound THEN "ReferenceError" ELSE "none"]

Throws(what) == [promise |-> Pending, calls |-> <<>>, threw |-> what]

\* function (error, response, body) {...}, the handler given to request.post.
Completion_ParsesFirst(callback, bound, error, body) ==
    IF ~body.json
    THEN Fail(callback, bound,
              [NoErr EXCEPT !.msg = "Could not understand response from server: ",
                            !.text = body.text])
    ELSE IF error.set
    THEN Fail(callback, bound,
              [NoErr EXCEPT !.msg = "Error in server response: ", !.cause = error])
    ELSE LET data == body.data IN
         IF data.t = "null" THEN Throws("TypeError")
         ELSE IF data.error.t = "array" /\ Len(data.error.elems) # 0
         THEN LET scan == ScanErrors(data.error.elems) IN
              IF scan.threw THEN Throws("TypeError")
              ELSE IF ~scan.isNull /\ scan.krakenError # <<>>
              THEN Fail(callback, bound,
                        [NoErr EXCEPT !.msg = "Kraken API returned error: ",
                                      !.code = scan.krakenError])
              ELSE Fail(callback, bound,
                        [NoErr EXCEPT !.msg = "Kraken API returned an unknown error: ",
                                      !.raw = data.error.elems])
         ELSE Succeed(callback, bound, data)
Completion(callback, bound, error, body) ==
    IF error.set
    THEN Fail(callback, bound,
              [NoErr EXCEPT !.msg = "Error in server response: ", !.cause = error])
    ELSE IF ~body.json
    THEN Fail(callback, bound,
              [NoErr EXCEPT !.msg = "Could not understand response from server: ",
                            !.text = body.text])
    ELSE LET data == body.data IN
         IF data.t = "null" THEN Throws("TypeError")
         ELSE IF data.error.t = "array" /\ Len(data.error.elems) # 0
         THEN LET scan == ScanErrors(data.error.elems) IN
              IF scan.threw THEN Throws("TypeError")
              ELSE IF ~scan.isNull /\ scan.krakenError # <<>>
              THEN Fail(callback, bound,
                        [NoErr EXCEPT !.msg = "Kraken API returned error: ",
                                      !.code = scan.krakenError])
              ELSE Fail(callback, bound,
                        [NoErr EXCEPT !.msg = "Kraken API returned an unknown error: ",
                                      !.raw = data.error.elems])
         ELSE Succeed(callback, bound, data)

----------------------------------------------------------------------------
\* The inputs the model draws from.
MethodInputs == {"Time", "Balance"}
InvalidInputs == {"Bogus", "balance"}
BagIds == {1}
NoArg == 0                       \* api(method) with params left undefined
Times == 1..MaxClock             \* the milliseconds Date.now() may return
ArgInputs == BagIds \cup {NoArg}
OptionInputs ==
    {OptUndefined, OptString("123456"), OptString(""),
     OptObject(<<[k |-> "version", v |-> Str("1")], [k |-> "timeout", v |-> Num(9000)]>>)}
CallerNonces == {Num(0), Num(1001)}
\* Every kind of value `!params.nonce` tells apart, undefined included.
SuppliedNonces == CallerNonces \cup {Str(""), Null, Undefined}
InitBags ==
    [b \in BagIds |->
        <<[k |-> "pair", v |-> Str("XXBTZEUR")], [k |-> "otp", v |-> Str("mine")],
          [k |-> "asset", v |-> Null]>>]

ErrorArrays ==
    {<<>>, <<S(<<"E", "A">>)>>, <<S(<<"E", "A">>), S(<<"E", "B">>)>>,
     <<S(<<"U">>)>>, <<S(<<"U">>), S(<<"E", "B">>)>>, <<S(<<"E">>)>>,
     <<S(<<"E", "A">>), S(<<"E">>)>>, <<S(<<>>)>>,
     <<NotAString>>, <<S(<<"E", "A">>), NotAString>>}
Results == {Undefined, Num(0), Bool(FALSE), Str(""), Null, Obj("{foo:1}")}
Bodies ==
    {NotJson("not json"), Json("null", DataNull)}
    \cup {Json("{error,result}", DataObject(ErrorArray(e), Obj("{foo:1}"))) : e \in ErrorArrays}
    \cup {Json("{error}", DataObject(ErrorArray(<<S(<<"E", "A">>)>>), Undefined)),
          Json("{error:text}", DataObject(ErrorText, Obj("{foo:1}")))}
    \cup {Json("{result}", DataObject(NoErrorField, r)) : r \in Results}
Outcomes ==
    {[error |-> NoError, body |-> b] : b \in Bodies}
    \cup {[error |-> TransportError("ETIMEDOUT"), body |-> b] :
            b \in {NotJson(""), Json("{result}", DataObject(NoErrorField, Obj("{foo:1}")))}}
\* The one answer used where the calls, not the answers, are what is explored.
CallOutcomes ==
    {[error |-> NoError, body |-> Json("{result}", DataObject(NoErrorField, Obj("{foo:1}")))]}

----------------------------------------------------------------------------
NoRequest ==
    [url |-> <<>>, method |-> "", headers |-> <<>>, form |-> <<>>, timeout |-> Undefined]
NoOutcome == [error |-> NoError, body |-> NotJson("")]
NoEv ==
    [op |-> "new", method |-> "", arg |-> NoArg, callback |-> FALSE,
     threw |-> "none", message |-> <<>>, returned |-> FALSE, id |-> 0,
     request |-> NoRequest, outcome |-> NoOutcome, promise |-> Pending,
     calls |-> <<>>]

Init ==
    /\ variant \in {"class", "closure"}
    /\ clock = 1
    /\ \E options \in OptionInputs : config = Config(Str("key"), Str("secret"), options)
    /\ lastNonce = IF variant = "class" THEN Micros(clock) ELSE 0
    /\ otherNonce = IF variant = "class" THEN Micros(clock) ELSE 0
    /\ bags = InitBags
    /\ pending = {}
    /\ ncalls = 0
    /\ sent = <<>>
    /\ callerWrote = FALSE
    /\ ev = NoEv

\* Whether a private call with these params reads the clock.
ReadsClock(params, last) ==
    ~Truthy(Get(params, "nonce")) /\ (variant = "closure" \/ last = 0)

\* api(method, params, callback); now is what Date.now() returns if the call
\* reads the clock, which does not run backwards.
Api(method, arg, callback, now) ==
    LET params == IF arg = NoArg THEN <<>> ELSE bags[arg]
        branch == Dispatch(method)
        reads == branch = "private" /\ ReadsClock(params, lastNonce)
    IN
    IF branch = "throw"
    THEN /\ ev' = [NoEv EXCEPT !.op = "api", !.method = method, !.threw = "Error",
                               !.message = <<method, " is not a valid API method.">>]
         /\ now = clock
         /\ UNCHANGED <<variant, config, lastNonce, otherNonce, clock, bags,
                        pending, ncalls, sent, callerWrote>>
    ELSE /\ ncalls < MaxCalls
         /\ IF reads THEN now >= clock ELSE now = clock
         /\ clock' = now
         /\ LET r == IF branch = "public"
                     THEN [params |-> params, lastNonce |-> lastNonce,
                           allocated |-> FALSE,
                           request |-> publicMethod(method, params)]
                     ELSE privateMethod(method, params, lastNonce, now)
                id == ncalls + 1
            IN /\ lastNonce' = r.lastNonce
               /\ bags' = IF arg = NoArg THEN bags ELSE [bags EXCEPT ![arg] = r.params]
               /\ pending' = pending \cup
                     {[id |-> id, request |-> r.request, callback |-> callback]}
               /\ ncalls' = id
               /\ sent' = Append(sent,
                     [id |-> id, kind |-> branch, arg |-> arg,
                      hadNonce |-> Has(params, "nonce"),
                      allocated |-> r.allocated,
                      nonce |-> Get(r.request.form, "nonce")])
               /\ ev' = [NoEv EXCEPT !.op = "api", !.method = method, !.arg = arg,
                                     !.callback = callback, !.returned = TRUE,
                                     !.id = id, !.request = r.request]
         /\ UNCHANGED <<variant, config, otherNonce, callerWrote>>

\* Whether the identifier `self` in callback.call(self, ...) resolves when
\* the handler runs.  The closure-based client declares it (`var self =
\* this`); the class declares none, so there it is a global of the host the
\* code runs in, or a ReferenceError.
SelfBindings == IF variant = "class" THEN BOOLEAN ELSE {TRUE}

\* The transport answers one request in flight: the handler runs to its end.
Respond(c, o, bound) ==
    LET done == Completion(c.callback, bound, o.error, o.body) IN
    /\ c \in pending
    /\ bound \in SelfBindings
    /\ pending' = pending \ {c}
    /\ ev' = [NoEv EXCEPT !.op = "respond", !.id = c.id, !.callback = c.callback,
                          !.request = c.request, !.outcome = o,
                          !.promise = done.promise, !.calls = done.calls,
                          !.threw = done.threw]
    /\ UNCHANGED <<variant, config, lastNonce, otherNonce, clock, bags, ncalls,
                   sent, callerWrote>>

\* The caller writes a nonce of their own into one of their parameter objects.
CallerSetNonce(b, v) ==
    /\ Get(bags[b], "nonce") # v
    /\ bags' = [bags EXCEPT ![b] = Put(bags[b], "nonce", v)]
    /\ callerWrote' = TRUE
    /\ ev' = [NoEv EXCEPT !.op = "write", !.arg = b]
    /\ UNCHANGED <<variant, config, lastNonce, otherNonce, clock, pending, ncalls,
                   sent>>

\* api('Balance') on a second instance, constructed with the same arguments
\* at the same time: `this` is that instance, so `this._lastNonce` is its
\* counter.  Its requests are not followed.
ApiOther_SharedCounter(now) ==
    LET r == privateMethod("Balance", <<>>, lastNonce, now) IN
    /\ otherNonce - Micros(1) < MaxCalls
    /\ lastNonce - Micros(1) < MaxCalls
    /\ IF ReadsClock(<<>>, lastNonce) THEN now >= clock ELSE now = clock
    /\ clock' = now
    /\ lastNonce' = r.lastNonce
    /\ ev' = [NoEv EXCEPT !.op = "other", !.method = "Balance"]
    /\ UNCHANGED <<variant, config, otherNonce, bags, pending, ncalls, sent,
                   callerWrote>>
ApiOther(now) ==
    LET r == privateMethod("Balance", <<>>, otherNonce, now) IN
    /\ otherNonce - Micros(1) < MaxCalls
    /\ IF ReadsClock(<<>>, otherNonce) THEN now >= clock ELSE now = clock
    /\ clock' = now
    /\ otherNonce' = r.lastNonce
    /\ ev' = [NoEv EXCEPT !.op = "other", !.method = "Balance"]
    /\ UNCHANGED <<variant, config, lastNonce, bags, pending, ncalls, sent,
                   callerWrote>>

\* The calls of Spec are promise-style (no callback) and explore the
\* parameter objects; SpecResponse explores the callbacks and the answers.
Next ==
    \/ \E m \in MethodInputs, a \in ArgInputs, now \in Times : Api(m, a, FALSE, now)
    \/ \E m \in InvalidInputs, a \in ArgInputs, cb \in BOOLEAN : Api(m, a, cb, clock)
    \/ \E c \in pending, o \in CallOutcomes : Respond(c, o, TRUE)
    \/ \E b \in BagIds, v \in CallerNonces : CallerSetNonce(b, v)

Spec == Init /\ [][Next]_vars

\* The same client with the caller's side explored: the calls, every kind of
\* nonce a caller can leave in a parameter object and the calls on a second
\* instance, no answers.
NextCaller ==
    \/ \E m \in MethodInputs, a \in ArgInputs, now \in Times : Api(m, a, FALSE, now)
    \/ \E b \in BagIds, v \in SuppliedNonces : CallerSetNonce(b, v)
    \/ \E now \in Times : ApiOther(now)

SpecCaller == Init /\ [][NextCaller]_vars
\* The same client with every answer of the transport explored, for calls
\* that pass no parameter object.
NextResponse ==
    \/ \E m \in MethodInputs, cb \in BOOLEAN, now \in Times : Api(m, NoArg, cb, now)
    \/ \E c \in pending, o \in Outcomes, b \in BOOLEAN : Respond(c, o, b)

SpecResponse == Init /\ [][NextResponse]_vars

----------------------------------------------------------------------------
\* Properties.

IsValidMethod(m) == m \in PublicMethods \cup PrivateMethods
IsPrivateFresh(e) == e.kind = "private" /\ ~e.hadNonce
IsAllocated(e) == e.allocated
FreshCalls == SelectSeq(sent, IsPrivateFresh)
Allocations == SelectSeq(sent, IsAllocated)

\* C1: in the class-based client, the private calls whose parameter object
\* held no nonce when they were made are given strictly increasing nonces,
\* _lastNonce is the nonce allocated last, and it never decreases.
C1_NonceMonotonic ==
    /\ [](variant = "class" =>
            /\ \A i \in 1..Len(FreshCalls) :
                  FreshCalls[i].allocated /\ FreshCalls[i].nonce.t = "number"
            /\ \A i, j \in 1..Len(FreshCalls) :
                  i < j => FreshCalls[i].nonce.n < FreshCalls[j].nonce.n
            /\ Allocations # <<>> =>
                  lastNonce = Allocations[Len(Allocations)].nonce.n)
    /\ [][variant = "class" => lastNonce' >= lastNonce]_vars
C1_Witness ==
    /\ variant = "class"
    /\ Len(FreshCalls) >= 2
    /\ FreshCalls[2].arg = NoArg
    /\ FreshCalls[1].arg # NoArg

\* C2: api() with a method name of neither catalog throws an error naming
\* the method and does nothing else: no request, no promise, no callback,
\* no change of the parameter objects or of the counter.
C2_InvalidMethodThrows ==
    [][(ev'.op = "api" /\ ~IsValidMethod(ev'.method)) =>
          /\ ev'.threw = "Error"
          /\ ev'.message = <<ev'.method, " is not a valid API method.">>
          /\ ~ev'.returned
          /\ ev'.calls = <<>>
          /\ pending' = pending
          /\ ncalls' = ncalls
          /\ sent' = sent
          /\ bags' = bags
          /\ lastNonce' = lastNonce]_vars
C2_Witness ==
    /\ ev.op = "api"
    /\ ev.method = "balance"
    /\ ev.threw = "Error"
    /\ pending # {}

\* What an answer is, read off the answer itself.
StartsWithE(entry) == entry.t = "string" /\ entry.chars # <<>> /\ Head(entry.chars) = "E"
HasErrors(o) ==
    /\ ~o.error.set /\ o.body.json /\ o.body.data.t = "object"
    /\ o.body.data.error.t = "array" /\ o.body.data.error.elems # <<>>
ErrorEntries(o) == o.body.data.error.elems
NumberOfE(o) == Cardinality({i \in 1..Len(ErrorEntries(o)) : StartsWithE(ErrorEntries(o)[i])})
FirstE(o) ==
    ErrorEntries(o)[CHOOSE i \in 1..Len(ErrorEntries(o)) :
        /\ StartsWithE(ErrorEntries(o)[i])
        /\ \A j \in 1..(i - 1) : ~StartsWithE(ErrorEntries(o)[j])]
IsFailure(o) == o.error.set \/ ~o.body.json \/ HasErrors(o)
IsSuccess(o) == ~o.error.set /\ o.body.json /\ o.body.data.t = "object" /\ ~HasErrors(o)

\* The errors a completed call handed to its caller, through either channel.
Surfaced ==
    {ev.calls[i].error : i \in {j \in 1..Len(ev.calls) : ev.calls[j].error.t = "error"}}
    \cup (IF ev.promise.state = "rejected" THEN {ev.promise.value} ELSE {})

\* C3: with several entries beginning with 'E' in the error array, the code
\* carried by the error surfaced is the first of them, its 'E' stripped, and
\* not a later one.
C3_FirstErrorWins ==
    (ev.op = "respond" /\ HasErrors(ev.outcome) /\ NumberOfE(ev.outcome) >= 2) =>
        \A x \in Surfaced :
            x.error.msg = "Kraken API returned error: " =>
                x.error.code = Tail(FirstE(ev.outcome).chars)

\* C4: a call that does not succeed reports its failure through exactly one
\* channel: the callback with (error, null) when there is one, and a
\* rejection of the promise otherwise.
C4_ExactlyOneChannel ==
    (ev.op = "respond" /\ IsFailure(ev.outcome)) =>
        IF ev.callback
        THEN /\ Len(ev.calls) = 1
             /\ ev.calls[1].error.t = "error"
             /\ ev.calls[1].value = VNull
             /\ ev.promise.state # "rejected"
        ELSE /\ ev.promise.state = "rejected"
             /\ ev.promise.value.t = "error"
             /\ ev.calls = <<>>

\* C5, as claimed: with a callback the promise, once settled, is resolved
\* with no value whatever the outcome, success included.
C5_PromiseCarriesNothing ==
    (ev.op = "respond" /\ ev.callback /\ ev.promise.state # "pending") =>
        ev.promise = Resolved(VUndefined)

\* C5, amended: with a callback the promise is never rejected, and when it
\* is resolved it carries no value after a failure and the success value
\* (body.result || body) after a success.
C5_PromiseWithCallback ==
    (ev.op = "respond" /\ ev.callback) =>
        /\ ev.promise.state # "rejected"
        /\ (ev.promise.state = "resolved" /\ IsFailure(ev.outcome)) =>
              ev.promise.value = VUndefined
        /\ IsSuccess(ev.outcome) =>
              /\ ev.promise.state = "resolved"
              /\ ev.promise.value =
                    IF Truthy(ev.outcome.body.data.result)
                    THEN VResult(ev.outcome.body.data.result)
                    ELSE VBody(ev.outcome.body.data)
              /\ \A i \in 1..Len(ev.calls) : ev.calls[i].value = ev.promise.value
C5_Witness ==
    /\ ev.op = "respond"
    /\ ev.callback
    /\ IsSuccess(ev.outcome)
    /\ ev.promise.state = "resolved"
    /\ ev.promise.value.t = "result"
    /\ Len(ev.calls) = 1

\* C6: on success the value delivered is body.result whenever the body has
\* a result field, and the whole body only when it has none.
C6_ResultIfPresent ==
    (ev.op = "respond" /\ IsSuccess(ev.outcome) /\ ev.promise.state = "resolved") =>
        ev.promise.value =
            IF ev.outcome.body.data.result # Undefined
            THEN VResult(ev.outcome.body.data.result)
            ELSE VBody(ev.outcome.body.data)

\* C7: with a non-empty error array the error is the remote error exactly
\* when some entry begins with 'E', and otherwise the unknown error with the
\* raw array; an empty error array is no error.
C7_RemoteIffE ==
    /\ (ev.op = "respond" /\ HasErrors(ev.outcome)) =>
          \A x \in Surfaced :
              IF NumberOfE(ev.outcome) > 0
              THEN x.error.msg = "Kraken API returned error: "
              ELSE /\ x.error.msg = "Kraken API returned an unknown error: "
                   /\ x.error.raw = ErrorEntries(ev.outcome)
    /\ (ev.op = "respond" /\ IsSuccess(ev.outcome)) => Surfaced = {}

\* The step is a call of api() with the method m that hands a request to
\* the transport; before is the parameter object as the caller passed it.
Before == IF ev'.arg = NoArg THEN <<>> ELSE bags[ev'.arg]
Handed == [id |-> ncalls + 1, request |-> ev'.request, callback |-> ev'.callback]

\* C8: a private call writes the nonce and the configured otp into params
\* before signing: the signature covers the path requested and the mapping
\* transmitted, the nonce signed is the nonce transmitted, and a call whose
\* params held no nonce advances the counter by exactly 1.
C8_SignedIsTransmitted ==
    [][(ev'.op = "api" /\ ev'.method \in PrivateMethods) =>
          LET req == ev'.request
              sig == Get(req.headers, "API-Sign")
              path == <<"/", ToString(config.version), "/", "private", "/", ev'.method>>
          IN  /\ pending' = pending \cup {Handed}
              /\ req.url = <<config.url>> \o path
              /\ Get(req.headers, "API-Key") = config.key
              /\ sig.path = path
              /\ sig.secret = config.secret
              /\ sig.hash.message = stringify(req.form)
              /\ sig.hash.nonce = ToString(Get(req.form, "nonce"))
              /\ Has(req.form, "nonce")
              /\ config.otp # Undefined => Get(req.form, "otp") = config.otp
              /\ ev'.arg # NoArg => bags'[ev'.arg] = req.form
              /\ (variant = "class" /\ ~Has(Before, "nonce")) =>
                    /\ lastNonce' = lastNonce + 1
                    /\ Get(req.form, "nonce") = Num(lastNonce')]_vars
C8_Witness ==
    /\ ev.op = "api"
    /\ ev.method = "Balance"
    /\ ev.arg # NoArg
    /\ variant = "class"
    /\ config.otp # Undefined
    /\ Len(sent) >= 2
    /\ sent[Len(sent)].allocated
    /\ ~sent[Len(sent)].hadNonce

\* C9: as long as the caller writes no nonce of their own, no two private
\* requests of the class-based client carry the same nonce.
C9_NoNonceReuse ==
    (variant = "class" /\ ~callerWrote) =>
        \A i, j \in 1..Len(sent) :
            (i < j /\ sent[i].kind = "private" /\ sent[j].kind = "private") =>
                sent[i].nonce # sent[j].nonce

\* C10: a public call hands over one POST to url/version/public/method
\* without API-Key and API-Sign, and changes neither the counter nor the
\* caller's params.
C10_PublicCallFrame ==
    [][(ev'.op = "api" /\ ev'.method \in PublicMethods) =>
          LET req == ev'.request IN
          /\ pending' = pending \cup {Handed}
          /\ ncalls' = ncalls + 1
          /\ req.method = "POST"
          /\ req.url = <<config.url, "/", ToString(config.version), "/", "public", "/",
                         ev'.method>>
          /\ ~Has(req.headers, "API-Key")
          /\ ~Has(req.headers, "API-Sign")
          /\ req.form = Before
          /\ bags' = bags
          /\ lastNonce' = lastNonce
          /\ ~sent'[ncalls'].allocated]_vars
C10_Witness ==
    /\ ev.op = "api"
    /\ ev.method = "Time"
    /\ ev.arg # NoArg
    /\ ~Has(bags[ev.arg], "nonce")
    /\ config.otp # Undefined
    /\ variant = "class"
    /\ lastNonce > Micros(1)

\* C11: a private call whose params hold a non-zero nonce of the caller's
\* signs and transmits that nonce as it is and leaves the counter alone; the
\* next nonce the counter gives is the counter plus 1 whatever was supplied,
\* so it can be lower than or equal to a supplied nonce already sent.
C11_SuppliedNonceKept ==
    [][(ev'.op = "api" /\ ev'.method \in PrivateMethods) =>
          LET req == ev'.request
              sig == Get(req.headers, "API-Sign")
              supplied == Get(Before, "nonce")
          IN  /\ Truthy(supplied) =>
                    /\ Get(req.form, "nonce") = supplied
                    /\ sig.hash.nonce = ToString(supplied)
                    /\ lastNonce' = lastNonce
                    /\ ~sent'[ncalls'].allocated
              /\ (variant = "class" /\ ~Truthy(supplied)) =>
                    /\ Get(req.form, "nonce") = Num(lastNonce + 1)
                    /\ lastNonce' = lastNonce + 1]_vars
C11_Witness ==
    /\ variant = "class"
    /\ Len(sent) = 2
    /\ sent[1].kind = "private" /\ sent[1].hadNonce /\ ~sent[1].allocated
    /\ sent[1].nonce = Num(1001)
    /\ sent[2].kind = "private" /\ sent[2].allocated
    /\ sent[2].nonce.n <= sent[1].nonce.n

\* C12: with several private calls of the class-based client in flight and
\* their answers arriving in any order, the nonces the counter gave are
\* pairwise distinct and increase in the order of the calls, the counter
\* holds the last of them, and an answer completes the call whose request
\* it answers and touches neither the counter nor the other calls.
C12_SerializedAllocation ==
    /\ [](variant = "class" =>
            /\ \A i, j \in 1..Len(Allocations) :
                  i < j => Allocations[i].nonce.n < Allocations[j].nonce.n
            /\ \A i, j \in 1..Len(Allocations) :
                  i < j => Allocations[i].id < Allocations[j].id
            /\ Allocations # <<>> =>
                  lastNonce = Allocations[Len(Allocations)].nonce.n
            /\ \A c \in pending :
                  Get(c.request.form, "nonce") = sent[c.id].nonce)
    /\ [][(variant = "class" /\ ev'.op = "respond") =>
            \E c \in pending :
                /\ c.id = ev'.id
                /\ c.request = ev'.request
                /\ c.callback = ev'.callback
                /\ ev'.calls # <<>> => c.callback
                /\ pending' = pending \ {c}
                /\ lastNonce' = lastNonce
                /\ sent' = sent]_vars
C12_Witness ==
    /\ variant = "class"
    /\ Len(Allocations) = 2
    /\ ev.op = "respond"
    /\ ev.id = 2
    /\ ev.callback
    /\ Len(ev.calls) = 1
    /\ \E c \in pending : c.id = 1 /\ ~c.callback

\* C13: every call of a catalogued method hands exactly one request to the
\* transport, and once the transport has answered the call is complete: its
\* promise is settled whatever the answer was (a transport error, a body
\* that is not JSON, a body that parses to any JSON value, null included),
\* the callback was called at most once and no further request was issued.
C13_SettledOnAnswer ==
    /\ Len(sent) = ncalls
    /\ \A c \in pending : c.id \in 1..ncalls
    /\ ev.op = "respond" =>
          /\ ev.promise.state # "pending"
          /\ Len(ev.calls) <= 1

\* Whether the completed call was told it succeeded, through either channel.
ToldSuccess ==
    \/ ev.promise.state = "resolved" /\ ev.promise.value.t \in {"result", "body"}
    \/ \E i \in 1..Len(ev.calls) : ev.calls[i].error = VNull

\* C14: an answer is classified in a fixed order, the same for public and
\* private calls: a transport error gives the transport-failure error
\* whatever the body is; otherwise a body that is not JSON gives the
\* protocol error with the raw body text; otherwise a non-empty error array
\* gives a remote or unknown error; and the call is told it succeeded only
\* when none of these applies.
C14_Precedence ==
    ev.op = "respond" =>
        LET o == ev.outcome
            transport ==
                VError([NoErr EXCEPT !.msg = "Error in server response: ",
                                     !.cause = o.error])
            protocol ==
                VError([NoErr EXCEPT !.msg = "Could not understand response from server: ",
                                     !.text = o.body.text])
            Only(e) ==
                /\ Surfaced \subseteq {e}
                /\ ev.threw = "none" => Surfaced = {e}
                /\ ~ToldSuccess
        IN  IF o.error.set THEN Only(transport)
            ELSE IF ~o.body.json THEN Only(protocol)
            ELSE IF HasErrors(o)
            THEN /\ \A x \in Surfaced :
                       x.error.msg \in {"Kraken API returned error: ",
                                        "Kraken API returned an unknown error: "}
                 /\ ev.threw = "none" => Surfaced # {}
                 /\ ~ToldSuccess
            ELSE /\ Surfaced = {}
                 /\ ev.threw = "none" => ToldSuccess
C14_Witness ==
    /\ ev.op = "respond"
    /\ Has(ev.request.headers, "API-Sign")
    /\ ev.outcome.error.set
    /\ ev.outcome.body.json
    /\ IsSuccess([ev.outcome EXCEPT !.error = NoError])
    /\ ev.promise.state = "rejected"
    /\ ev.promise.value.error.cause = ev.outcome.error

IsSigned(c) == Has(c.request.headers, "API-Sign")
SignatureOf(c) == Get(c.request.headers, "API-Sign")

\* C15: the API-Sign of a private request is decided by the path, the
\* params transmitted, the nonce and the secret: two private requests of one
\* client with the same path and the same params carry the same signature,
\* whatever the counter was when each was made, and the call that signs
\* leaves the configuration alone, the params as they are transmitted and
\* the counter where the nonce allocation put it.
C15_SignatureDeterministic ==
    /\ [](\A c1, c2 \in pending :
            (/\ IsSigned(c1) /\ IsSigned(c2)
             /\ c1.request.url = c2.request.url
             /\ c1.request.form = c2.request.form) =>
                SignatureOf(c1) = SignatureOf(c2))
    /\ [][(ev'.op = "api" /\ ev'.method \in PrivateMethods) =>
            LET req == ev'.request IN
            /\ Get(req.headers, "API-Sign") =
                  [hmac |-> "sha512",
                   secret |-> config.secret,
                   path |-> <<"/", ToString(config.version), "/", "private", "/",
                              ev'.method>>,
                   hash |-> [nonce |-> ToString(Get(req.form, "nonce")),
                             message |-> stringify(req.form)]]
            /\ config' = config
            /\ ev'.arg # NoArg => bags'[ev'.arg] = req.form
            /\ lastNonce' = IF variant = "class" /\ sent'[ncalls'].allocated
                            THEN lastNonce + 1 ELSE lastNonce]_vars
C15_Witness ==
    /\ variant = "class"
    /\ Len(sent) = 2
    /\ sent[1].allocated
    /\ ~sent[2].allocated
    /\ lastNonce = Micros(1) + 1
    /\ \E c1, c2 \in pending :
          /\ c1.id = 1 /\ c2.id = 2
          /\ IsSigned(c1) /\ IsSigned(c2)
          /\ c1.request.url = c2.request.url
          /\ c1.request.form = c2.request.form
          /\ SignatureOf(c1) = SignatureOf(c2)

\* C16: in the closure-based client the private calls whose params held no
\* nonce transmit strictly increasing nonces, in the order of the calls and
\* whatever the clock does between them.
C16_ClosureNonceMonotonic ==
    variant = "closure" =>
        \A i, j \in 1..Len(FreshCalls) :
            i < j => FreshCalls[i].nonce.n < FreshCalls[j].nonce.n

\* C17, as claimed: a nonce is allocated exactly when params has no nonce
\* key; with the key present, whatever its value, that value is transmitted
\* and the counter stays.
C17_KeyPresenceDecides ==
    [][(ev'.op = "api" /\ ev'.method \in PrivateMethods) =>
          IF Has(Before, "nonce")
          THEN /\ Get(ev'.request.form, "nonce") = Get(Before, "nonce")
               /\ lastNonce' = lastNonce
               /\ ~sent'[ncalls'].allocated
          ELSE sent'[ncalls'].allocated]_vars

\* C17, amended: a nonce is allocated exactly when params.nonce is falsy
\* (no such key, or undefined, null, 0 or the empty string): the value is
\* overwritten with the allocated nonce and the class-based client's counter
\* advances by 1; a truthy nonce is transmitted as it is and the counter
\* stays.
C17_AllocatedIffFalsy ==
    [][(ev'.op = "api" /\ ev'.method \in PrivateMethods) =>
          LET supplied == Get(Before, "nonce")
              transmitted == Get(ev'.request.form, "nonce")
          IN  IF Truthy(supplied)
              THEN /\ transmitted = supplied
                   /\ lastNonce' = lastNonce
                   /\ ~sent'[ncalls'].allocated
              ELSE /\ sent'[ncalls'].allocated
                   /\ transmitted.t = "number" /\ transmitted.n # 0
                   /\ variant = "class" =>
                         /\ transmitted = Num(lastNonce + 1)
                         /\ lastNonce' = lastNonce + 1
                   /\ variant = "closure" =>
                         /\ transmitted = Num(Micros(clock'))
                         /\ lastNonce' = lastNonce
                   /\ ev'.arg # NoArg => Get(bags'[ev'.arg], "nonce") = transmitted]_vars
C17_Witness ==
    /\ variant = "class"
    /\ Len(sent) = 2
    /\ sent[1].hadNonce /\ sent[1].allocated
    /\ sent[2].hadNonce /\ ~sent[2].allocated
    /\ sent[2].nonce = Num(1001)
    /\ lastNonce = Micros(1) + 1

\* C18: in the class-based client a call made with a callback and completed
\* (its promise settled) has called the callback exactly once: with
\* (error, null) after a failure, and with (null, value) after a success,
\* the promise being resolved with that value.
C18_CallbackExactlyOnce ==
    (variant = "class" /\ ev.op = "respond" /\ ev.callback
        /\ ev.promise.state # "pending") =>
        /\ Len(ev.calls) = 1
        /\ IsFailure(ev.outcome) =>
              /\ ev.calls[1].error.t = "error"
              /\ ev.calls[1].value = VNull
        /\ IsSuccess(ev.outcome) =>
              /\ ev.calls[1].error = VNull
              /\ ev.promise = Resolved(ev.calls[1].value)

IsCallersKey(e) == e.k \notin {"nonce", "otp"}
CallersKeys(o) == SelectSeq(o, IsCallersKey)

\* C20: a private call leaves every key of params other than nonce and otp
\* as the caller set it and transmits them so, changes nothing of the
\* client but its counter, and leaves the counter of another instance
\* alone, as a call on another instance leaves this one's; the
\* configuration never changes after construction.
C20_PrivateCallFrame ==
    /\ [][(ev'.op = "api" /\ ev'.method \in PrivateMethods) =>
            /\ CallersKeys(ev'.request.form) = CallersKeys(Before)
            /\ ev'.arg # NoArg =>
                  /\ CallersKeys(bags'[ev'.arg]) = CallersKeys(bags[ev'.arg])
                  /\ bags'[ev'.arg] = ev'.request.form
            /\ \A b \in BagIds \ {ev'.arg} : bags'[b] = bags[b]
            /\ lastNonce' \in {lastNonce, lastNonce + 1}
            /\ otherNonce' = otherNonce
            /\ variant' = variant]_vars
    /\ [][ev'.op = "other" =>
            /\ lastNonce' = lastNonce
            /\ bags' = bags
            /\ pending' = pending]_vars
    /\ [][config' = config]_vars
C20_Witness ==
    /\ variant = "class"
    /\ config.otp = Str("123456")
    /\ ev.op = "api"
    /\ ev.method = "Balance"
    /\ ev.arg # NoArg
    /\ CallersKeys(bags[ev.arg]) = CallersKeys(InitBags[ev.arg])
    /\ Get(bags[ev.arg], "otp") = Str("123456")
    /\ Get(bags[ev.arg], "nonce") = Num(lastNonce)
    /\ lastNonce = Micros(1) + 1
    /\ otherNonce = Micros(1) + 2

====
